---- MODULE Spec2Model ----
(***************************************************************************)
(* CodeSnap task lifecycle: TaskManager (src/codesnap/task.py) driving     *)
(* GitOps (src/codesnap/git.py) over one git repository and one registry   *)
(* file (.codesnap/tasks.json).                                            *)
(*                                                                         *)
(* The tool is single-threaded and synchronous: one lifecycle operation is *)
(* one action.  Every git command an operation issues may fail (GitPython  *)
(* raises GitCommandError); which commands of an operation fail is chosen  *)
(* by the environment (the set F of failing call numbers).                 *)
(*                                                                         *)
(* Branch names are sequences of string tokens, so that "the prefix occurs *)
(* in the name" (Python's `in`) is computed and not assumed.  Timestamps   *)
(* are integers (one tick of `clock`); ages in days are clock differences. *)
(* A record's free-text description plays no part in any operation and is  *)
(* left out.                                                               *)
(***************************************************************************)
EXTENDS Integers, Sequences, FiniteSets, TLC

Range(s) == {s[i] : i \in 1..Len(s)}

VARIABLES
    git,        \* the repository: branches, HEAD, branch contents, working tree
    registry,   \* what _load_tasks() returns: the list of task records
    clock,      \* datetime.now()
    last        \* the running command: its arguments, its outcome, the branch it
                \* started on, the git calls it made and the call whose error it
                \* reports (op "none" between commands)

vars == <<git, registry, clock, last>>

----------------------------------------------------------------------------
\* Bounds of the model

MaxClock == 1
MaxCommits == 2
MaxFailures == 1
MaxInitTasks == 2

\* the task names, in the order Init adds their records (the names are
\* interchangeable)
NameOrder == <<"a", "b", "c">>
TaskNames == {NameOrder[k] : k \in 1..MaxInitTasks}
DaysInputs == 0..1

----------------------------------------------------------------------------
\* Names

task_prefix == "codesnap@task/"

NoBranch == <<>>
Master == <<"master">>
Main == <<"main">>
Dev == <<"dev">>

\* the plain branches a repository starts with
InitPlain == {{Master, Main}, {Dev}}

TaskBranch(name) == <<task_prefix, name>>

TempBranch(now) == <<"temp-", ToString(now)>>

\* `self.task_prefix in current_branch` / `self.config.task_prefix in current_branch`
HasTaskPrefix(b) == \E i \in 1..Len(b) : b[i] = task_prefix

----------------------------------------------------------------------------
\* The registry

NewTask(id, name, base, now) ==
    [id |-> id, name |-> name, branch |-> TaskBranch(name), base_branch |-> base,
     status |-> "Active", created |-> now, last_activity |-> now, commits |-> 0]

RECURSIVE SetMax(_)
SetMax(S) ==
    IF S = {} THEN 0
    ELSE LET x == CHOOSE y \in S : TRUE
             m == SetMax(S \ {x})
         IN IF x > m THEN x ELSE m

\* variant: the highest id itself, not one more
_get_next_id_without_increment(tasks) ==
    IF tasks = <<>> THEN 1
    ELSE SetMax({tasks[i].id : i \in 1..Len(tasks)})

_get_next_id(tasks) ==
    IF tasks = <<>> THEN 1
    ELSE SetMax({tasks[i].id : i \in 1..Len(tasks)}) + 1

Branches(tasks) == {tasks[i].branch : i \in 1..Len(tasks)}

----------------------------------------------------------------------------
\* An operation's run: the repository g, the git calls issued so far (log),
\* and the call numbers F at which the command fails.

\* staged / added: what the run has put in the index and not yet committed.
\* err: the number of the call whose GitCommandError squash_commits caught as
\* `e` and returns as str(e) (0: none).
Start(g, F) ==
    [g |-> g, log |-> <<>>, F |-> F, staged |-> {}, added |-> FALSE, commit |-> 0,
     err |-> 0]

\* The repository the run leaves: staged but uncommitted changes show in
\* git status.
Final(x) == [x.g EXCEPT !.dirty = @ \/ x.added \/ x.staged # {}]

Fails(x) == (Len(x.log) + 1) \in x.F

Logged(x, cmd, arg, ok) == [x EXCEPT !.log = Append(@, <<cmd, arg, ok>>)]

----------------------------------------------------------------------------
\* git commands, as GitOps issues them through GitPython (self.repo.git.*).
\* Each returns [ok, x]: ok = FALSE is a GitCommandError.  A command fails
\* when git cannot do it (the branch is missing, the name is taken, the
\* branch to delete is checked out, there is nothing to commit) or when the
\* environment makes this call fail (a conflict, a hook, a lock).
\* Queries (status, refs, active_branch) are not counted as fallible calls.

\* branch contents: the changes a branch holds and the commits on it
Holds(g, b) == g.tree[b].content

\* git checkout <b>
GitCheckout(x, b) ==
    LET ok == b \in x.g.branches /\ ~Fails(x)
    IN [ok |-> ok,
        x |-> [Logged(x, "checkout", b, ok) EXCEPT
                  !.g.current = IF ok THEN b ELSE @]]

\* git checkout -b <b>: a new branch at HEAD, checked out
GitCheckoutNew(x, b) ==
    LET ok == b \notin x.g.branches /\ ~Fails(x)
        g == x.g
    IN [ok |-> ok,
        x |-> IF ok
              THEN [Logged(x, "checkout-b", b, ok) EXCEPT
                       !.g.branches = @ \cup {b},
                       !.g.tree = [c \in g.branches \cup {b} |->
                                      IF c = b THEN g.tree[g.current] ELSE g.tree[c]],
                       !.g.current = b]
              ELSE Logged(x, "checkout-b", b, ok)]

\* git merge --squash <b>: stages what b holds and HEAD does not; no commit
GitMergeSquash(x, b) ==
    LET ok == b \in x.g.branches /\ ~Fails(x)
        g == x.g
        new == IF b \in g.branches THEN Holds(g, b) \ Holds(g, g.current) ELSE {}
    IN [ok |-> ok,
        x |-> [Logged(x, "merge-squash", b, ok) EXCEPT !.staged = new]]

\* git commit -m <message>: one new commit on HEAD's branch, of what is staged
GitCommit(x) ==
    LET g == x.g
        ok == (x.staged # {} \/ x.added) /\ ~Fails(x)
        k == g.nextCommit
    IN [ok |-> ok,
        x |-> IF ok
              THEN [Logged(x, "commit", g.current, ok) EXCEPT
                       !.g.tree[g.current] =
                           [content |-> @.content \cup x.staged \cup {k},
                            commits |-> @.commits \cup {k}],
                       !.g.nextCommit = k + 1,
                       !.staged = {},
                       !.added = FALSE,
                       !.commit = k]
              ELSE Logged(x, "commit", g.current, ok)]

\* git add -A
GitAddAll(x) ==
    LET ok == ~Fails(x)
    IN [ok |-> ok,
        x |-> [Logged(x, "add", x.g.current, ok) EXCEPT
                  !.added = IF ok THEN x.g.dirty ELSE @,
                  !.g.dirty = IF ok THEN FALSE ELSE @]]

\* git merge <b> into HEAD's branch (b descends from it: a fast-forward)
GitMerge(x, b) ==
    LET g == x.g
        ok == b \in g.branches /\ ~Fails(x)
    IN [ok |-> ok,
        x |-> IF ok
              THEN [Logged(x, "merge", b, ok) EXCEPT
                       !.g.tree[g.current] =
                           [content |-> @.content \cup g.tree[b].content,
                            commits |-> @.commits \cup g.tree[b].commits]]
              ELSE Logged(x, "merge", b, ok)]

\* git branch -D <b>
GitBranchD(x, b) ==
    LET g == x.g
        ok == b \in g.branches /\ b # g.current /\ ~Fails(x)
    IN [ok |-> ok,
        x |-> IF ok
              THEN [Logged(x, "branch-D", b, ok) EXCEPT
                       !.g.branches = @ \ {b},
                       !.g.tree = [c \in g.branches \ {b} |-> g.tree[c]]]
              ELSE Logged(x, "branch-D", b, ok)]

\* git reset --hard HEAD, then git clean -fd: the tree is clean once both
\* have run (dirty stands for modified or untracked files)
GitResetHard(x) ==
    LET ok == ~Fails(x)
    IN [ok |-> ok, x |-> Logged(x, "reset", x.g.current, ok)]

GitClean(x) ==
    LET ok == ~Fails(x)
    IN [ok |-> ok,
        x |-> [Logged(x, "clean", x.g.current, ok) EXCEPT
                  !.g.dirty = IF ok THEN FALSE ELSE @]]

----------------------------------------------------------------------------
\* GitOps (src/codesnap/git.py).  Methods returning Tuple[bool, str] return
\* [ok, msg, x]; msg names the message, the git error text is "GitCommandError".

is_git_repo(g) == g.isRepo

\* None (NoBranch) outside a repository and on a detached HEAD
get_current_branch(g) == IF ~is_git_repo(g) THEN NoBranch ELSE g.current

\* git status --porcelain: non-empty when the tree has changes
get_changes(g) == is_git_repo(g) /\ g.dirty

\* the names in self.repo.refs
Refs(g) == g.branches

get_main_branch(g) ==
    IF ~is_git_repo(g) THEN NoBranch
    ELSE IF Master \in Refs(g) THEN Master
    ELSE IF Main \in Refs(g) THEN Main
    ELSE NoBranch

checkout_branch(x, branch_name) ==
    IF ~is_git_repo(x.g)
    THEN [ok |-> FALSE, msg |-> "Not a git repository", x |-> x]
    ELSE LET r == GitCheckout(x, branch_name)
         IN [ok |-> r.ok,
             msg |-> IF r.ok THEN "Switched to branch" ELSE "GitCommandError",
             x |-> r.x]

\* variant: a failed deletion is reported as done
delete_branch_hiding_failure(x, branch_name) ==
    IF ~is_git_repo(x.g)
    THEN [ok |-> FALSE, msg |-> "Not a git repository", x |-> x]
    ELSE [ok |-> TRUE, msg |-> "Deleted branch", x |-> GitBranchD(x, branch_name).x]

delete_branch(x, branch_name) ==
    IF ~is_git_repo(x.g)
    THEN [ok |-> FALSE, msg |-> "Not a git repository", x |-> x]
    ELSE LET r == GitBranchD(x, branch_name)
         IN [ok |-> r.ok,
             msg |-> IF r.ok THEN "Deleted branch" ELSE "GitCommandError",
             x |-> r.x]

\* kind is "ok" / "fail" for the returned (True, ..) / (False, ..), and
\* "raise" for an exception that leaves the method.
commit_changes(x) ==
    IF ~is_git_repo(x.g)
    THEN [kind |-> "fail", msg |-> "Not a git repository", x |-> x]
    ELSE IF ~get_changes(x.g)
    THEN [kind |-> "fail", msg |-> "No changes to commit", x |-> x]
    ELSE LET current_branch == get_current_branch(x.g)
         IN IF current_branch = NoBranch
            THEN \* `task_prefix in None`
                 [kind |-> "raise", msg |-> "TypeError", x |-> x]
            ELSE IF HasTaskPrefix(current_branch)
            THEN LET a == GitAddAll(x)
                     c == GitCommit(a.x)
                 IN IF ~a.ok
                    THEN [kind |-> "fail", msg |-> "Failed to commit", x |-> a.x]
                    ELSE IF ~c.ok
                    THEN [kind |-> "fail", msg |-> "Failed to commit", x |-> c.x]
                    ELSE [kind |-> "ok", msg |-> "committed", x |-> c.x]
            ELSE [kind |-> "fail", msg |-> "Not on a task branch", x |-> x]

\* variant: the clean-up checks the branch out and leaves the temporary branch
SquashCleanup_checkout_only(x, current_branch, temp_branch) ==
    GitCheckout(x, current_branch).x

\* the except-branch of squash_commits: checkout back, delete the temporary
\* branch if it is among the refs; a GitCommandError in here is passed over
SquashCleanup(x, current_branch, temp_branch) ==
    LET c == GitCheckout(x, current_branch)
    IN IF ~c.ok THEN c.x
       ELSE IF temp_branch \in Refs(c.x.g)
       THEN GitBranchD(c.x, temp_branch).x
       ELSE c.x

\* variant: the error returned is the last one raised, the clean-up's included
squash_commits_reporting_last(x, now) ==
    IF ~is_git_repo(x.g)
    THEN [ok |-> FALSE, msg |-> "Not a git repository", x |-> x]
    ELSE
    LET main_branch == get_main_branch(x.g)
        current_branch == get_current_branch(x.g)
        temp_branch == TempBranch(now)
    IN IF main_branch = NoBranch \/ current_branch = NoBranch
       THEN [ok |-> FALSE, msg |-> "Unable to determine branches", x |-> x]
       ELSE
       LET s1 == GitCheckout(x, main_branch)
           s2 == GitCheckoutNew(s1.x, temp_branch)
           s3 == GitMergeSquash(s2.x, current_branch)
           s4 == GitCommit(s3.x)
           s5 == GitCheckout(s4.x, main_branch)
           s6 == GitMerge(s5.x, temp_branch)
           s7 == GitBranchD(s6.x, temp_branch)
           Failed(s) ==
               LET c == SquashCleanup(s.x, current_branch, temp_branch)
                   last_failed == CHOOSE i \in 1..Len(c.log) :
                                      /\ ~c.log[i][3]
                                      /\ \A j \in (i + 1)..Len(c.log) : c.log[j][3]
               IN [ok |-> FALSE, msg |-> "GitCommandError",
                   x |-> [c EXCEPT !.err = last_failed]]
       IN IF ~s1.ok THEN Failed(s1)
          ELSE IF ~s2.ok THEN Failed(s2)
          ELSE IF ~s3.ok THEN Failed(s3)
          ELSE IF ~s4.ok THEN Failed(s4)
          ELSE IF ~s5.ok THEN Failed(s5)
          ELSE IF ~s6.ok THEN Failed(s6)
          ELSE IF ~s7.ok THEN Failed(s7)
          ELSE [ok |-> TRUE, msg |-> "squashed", x |-> s7.x]

squash_commits(x, now) ==
    IF ~is_git_repo(x.g)
    THEN [ok |-> FALSE, msg |-> "Not a git repository", x |-> x]
    ELSE
    LET main_branch == get_main_branch(x.g)
        current_branch == get_current_branch(x.g)
        temp_branch == TempBranch(now)
    IN IF main_branch = NoBranch \/ current_branch = NoBranch
       THEN [ok |-> FALSE, msg |-> "Unable to determine branches", x |-> x]
       ELSE
       LET s1 == GitCheckout(x, main_branch)
           s2 == GitCheckoutNew(s1.x, temp_branch)
           s3 == GitMergeSquash(s2.x, current_branch)
           s4 == GitCommit(s3.x)
           s5 == GitCheckout(s4.x, main_branch)
           s6 == GitMerge(s5.x, temp_branch)
           s7 == GitBranchD(s6.x, temp_branch)
           \* `except GitCommandError as e`: e is the failed step's error; what
           \* the clean-up raises is caught apart and dropped
           Failed(s) == [ok |-> FALSE, msg |-> "GitCommandError",
                         x |-> SquashCleanup([s.x EXCEPT !.err = Len(s.x.log)],
                                             current_branch, temp_branch)]
       IN IF ~s1.ok THEN Failed(s1)
          ELSE IF ~s2.ok THEN Failed(s2)
          ELSE IF ~s3.ok THEN Failed(s3)
          ELSE IF ~s4.ok THEN Failed(s4)
          ELSE IF ~s5.ok THEN Failed(s5)
          ELSE IF ~s6.ok THEN Failed(s6)
          ELSE IF ~s7.ok THEN Failed(s7)
          ELSE [ok |-> TRUE, msg |-> "squashed", x |-> s7.x]

\* variant: the hard reset only, untracked files are left
abort_changes_reset_only(x) ==
    IF ~is_git_repo(x.g)
    THEN [ok |-> FALSE, msg |-> "Not a git repository", x |-> x]
    ELSE LET current_branch == get_current_branch(x.g)
         IN IF current_branch = NoBranch \/ ~HasTaskPrefix(current_branch)
            THEN [ok |-> FALSE, msg |-> "Not on a task branch", x |-> x]
            ELSE LET r == GitResetHard(x)
                 IN IF ~r.ok THEN [ok |-> FALSE, msg |-> "GitCommandError", x |-> r.x]
                    ELSE [ok |-> TRUE, msg |-> "All changes have been abandoned", x |-> r.x]

abort_changes(x) ==
    IF ~is_git_repo(x.g)
    THEN [ok |-> FALSE, msg |-> "Not a git repository", x |-> x]
    ELSE LET current_branch == get_current_branch(x.g)
         IN IF current_branch = NoBranch \/ ~HasTaskPrefix(current_branch)
            THEN [ok |-> FALSE, msg |-> "Not on a task branch", x |-> x]
            ELSE LET r == GitResetHard(x)
                     c == GitClean(r.x)
                 IN IF ~r.ok THEN [ok |-> FALSE, msg |-> "GitCommandError", x |-> r.x]
                    ELSE IF ~c.ok THEN [ok |-> FALSE, msg |-> "GitCommandError", x |-> c.x]
                    ELSE [ok |-> TRUE, msg |-> "All changes have been abandoned", x |-> c.x]

----------------------------------------------------------------------------
\* TaskManager (src/codesnap/task.py).  A method's run ends with
\* [kind, msg, x, tasks, count]: kind "ok" / "fail" for a returned
\* (True, ..) / (False, ..) (prune_tasks returns count), kind "raise" for an
\* exception leaving the method; tasks is the registry file afterwards.

Ret(kind, msg, x, tasks) == [kind |-> kind, msg |-> msg, x |-> x, tasks |-> tasks, count |-> 0]

\* self.git._run_command(...): class GitOps defines no attribute of that
\* name (git.py defines is_git_repo ... delete_branch and the property repo),
\* so evaluating `self.git._run_command` raises AttributeError before any
\* command is run.
_run_command(x, tasks) == Ret("raise", "AttributeError", x, tasks)

\* variant: with no record for the current branch, the first record is taken
get_current_task_defaulting(g, tasks) ==
    IF \E i \in 1..Len(tasks) : tasks[i].branch = get_current_branch(g)
    THEN CHOOSE i \in 1..Len(tasks) : tasks[i].branch = get_current_branch(g)
    ELSE IF tasks # <<>> THEN 1 ELSE 0

\* the index of the current task's record, 0 for None
get_current_task(g, tasks) ==
    LET current_branch == get_current_branch(g)
    IN IF current_branch = NoBranch \/ ~HasTaskPrefix(current_branch) THEN 0
       ELSE IF \E i \in 1..Len(tasks) : tasks[i].branch = current_branch
       THEN CHOOSE i \in 1..Len(tasks) :
               /\ tasks[i].branch = current_branch
               /\ \A j \in 1..(i - 1) : tasks[j].branch # current_branch
       ELSE 0

\* variant: the updated record is added to the list, the old one kept
update_task_status_appending(tasks, task_name, status, increment_commits, now) ==
    IF \E i \in 1..Len(tasks) : tasks[i].name = task_name
    THEN LET i == CHOOSE k \in 1..Len(tasks) : tasks[k].name = task_name
         IN Append(tasks, [tasks[i] EXCEPT !.status = status,
                                           !.last_activity = now,
                                           !.commits = IF increment_commits THEN @ + 1 ELSE @])
    ELSE tasks

\* variant: nothing is written
update_task_status_not_saving(tasks, task_name, status, increment_commits, now) ==
    tasks

\* variant: every record gets the status, not only the one named task_name
update_task_status_all_records(tasks, task_name, status, increment_commits, now) ==
    [i \in 1..Len(tasks) |->
        [tasks[i] EXCEPT !.status = status, !.last_activity = now]]

\* variant: the commits counter goes up at every status update
update_task_status_counting(tasks, task_name, status, increment_commits, now) ==
    IF \E i \in 1..Len(tasks) : tasks[i].name = task_name
    THEN LET i == CHOOSE k \in 1..Len(tasks) :
                     /\ tasks[k].name = task_name
                     /\ \A j \in 1..(k - 1) : tasks[j].name # task_name
         IN [tasks EXCEPT ![i].status = status,
                          ![i].last_activity = now,
                          ![i].commits = @ + 1]
    ELSE tasks

\* the first record named task_name gets the status; saved only if found
update_task_status(tasks, task_name, status, increment_commits, now) ==
    IF \E i \in 1..Len(tasks) : tasks[i].name = task_name
    THEN LET i == CHOOSE k \in 1..Len(tasks) :
                     /\ tasks[k].name = task_name
                     /\ \A j \in 1..(k - 1) : tasks[j].name # task_name
         IN [tasks EXCEPT ![i].status = status,
                          ![i].last_activity = now,
                          ![i].commits = IF increment_commits THEN @ + 1 ELSE @]
    ELSE tasks

\* variant: uncommitted changes are not looked at
create_task_ignoring_changes(x, tasks, task_name, force, base_arg) ==
    IF ~is_git_repo(x.g)
    THEN Ret("fail", "Not in a Git repository", x, tasks)
    ELSE LET base_branch == IF base_arg = NoBranch
                            THEN get_current_branch(x.g) ELSE base_arg
         IN IF base_branch = NoBranch
            THEN Ret("fail", "Unable to determine current branch", x, tasks)
            ELSE _run_command(x, tasks)

\* variant: the task branch is created before the base branch is verified
create_task_branch_first(x, tasks, task_name, force, base_arg) ==
    IF ~is_git_repo(x.g)
    THEN Ret("fail", "Not in a Git repository", x, tasks)
    ELSE IF ~force /\ get_changes(x.g)
    THEN Ret("fail", "You have uncommitted changes", x, tasks)
    ELSE LET base_branch == IF base_arg = NoBranch
                            THEN get_current_branch(x.g) ELSE base_arg
         IN IF base_branch = NoBranch
            THEN Ret("fail", "Unable to determine current branch", x, tasks)
            ELSE _run_command(IF get_current_branch(x.g) = NoBranch THEN x
                              ELSE GitCheckoutNew(x, TaskBranch(task_name)).x,
                              tasks)

\* variant: the base branch is checked out before it is verified
create_task_checking_out_first(x, tasks, task_name, force, base_arg) ==
    IF ~is_git_repo(x.g)
    THEN Ret("fail", "Not in a Git repository", x, tasks)
    ELSE IF ~force /\ get_changes(x.g)
    THEN Ret("fail", "You have uncommitted changes", x, tasks)
    ELSE LET base_branch == IF base_arg = NoBranch
                            THEN get_current_branch(x.g) ELSE base_arg
         IN IF base_branch = NoBranch
            THEN Ret("fail", "Unable to determine current branch", x, tasks)
            ELSE _run_command(checkout_branch(x, base_branch).x, tasks)

create_task(x, tasks, task_name, force, base_arg) ==
    IF ~is_git_repo(x.g)
    THEN Ret("fail", "Not in a Git repository", x, tasks)
    ELSE IF ~force /\ get_changes(x.g)
    THEN Ret("fail", "You have uncommitted changes", x, tasks)
    ELSE LET base_branch == IF base_arg = NoBranch
                            THEN get_current_branch(x.g) ELSE base_arg
         IN IF base_branch = NoBranch
            THEN Ret("fail", "Unable to determine current branch", x, tasks)
            ELSE \* line 56: git rev-parse --verify through _run_command
                 _run_command(x, tasks)

\* variant: the task is marked Merged once the base branch is checked out
apply_changes_marking_merged(x, tasks, return_to_task) ==
    LET t == get_current_task(x.g, tasks)
    IN IF t = 0
       THEN Ret("fail", "Not on a task branch", x, tasks)
       ELSE LET base_branch == tasks[t].base_branch
                c == checkout_branch(x, base_branch)
            IN IF ~c.ok
               THEN Ret("fail", "Failed to checkout base branch", c.x, tasks)
               ELSE _run_command(c.x, update_task_status(tasks, tasks[t].name, "Merged", FALSE, 0))

apply_changes(x, tasks, return_to_task) ==
    LET t == get_current_task(x.g, tasks)
    IN IF t = 0
       THEN Ret("fail", "Not on a task branch", x, tasks)
       ELSE LET base_branch == tasks[t].base_branch
                c == checkout_branch(x, base_branch)
            IN IF ~c.ok
               THEN Ret("fail", "Failed to checkout base branch", c.x, tasks)
               ELSE \* line 167: git merge --no-commit --no-ff through _run_command
                    _run_command(c.x, tasks)

\* variant: the status is set to Merged before the squash is known to have worked
merge_changes_marking_first(x, tasks, commit, squash, now) ==
    LET t == get_current_task(x.g, tasks)
    IN IF t = 0
       THEN Ret("fail", "Not on a task branch", x, tasks)
       ELSE
       LET base_branch == tasks[t].base_branch
           updated == update_task_status(tasks, tasks[t].name, "Merged", FALSE, now)
       IN IF squash
          THEN LET s == squash_commits(x, now)
               IN IF s.ok
                  THEN Ret("ok", "Squashed and merged",
                           checkout_branch(s.x, base_branch).x, updated)
                  ELSE Ret("fail", s.msg, s.x, updated)
          ELSE IF commit
          THEN LET c == checkout_branch(x, base_branch)
               IN IF ~c.ok
                  THEN Ret("fail", "Failed to checkout base branch", c.x, tasks)
                  ELSE _run_command(c.x, tasks)
          ELSE apply_changes(x, tasks, FALSE)

merge_changes(x, tasks, commit, squash, now) ==
    LET t == get_current_task(x.g, tasks)
    IN IF t = 0
       THEN Ret("fail", "Not on a task branch", x, tasks)
       ELSE
       LET base_branch == tasks[t].base_branch
       IN IF squash
          THEN LET s == squash_commits(x, now)
               IN IF s.ok
                  THEN Ret("ok", "Squashed and merged",
                           checkout_branch(s.x, base_branch).x,
                           update_task_status(tasks, tasks[t].name, "Merged", FALSE, now))
                  ELSE Ret("fail", s.msg, s.x, tasks)
          ELSE IF commit
          THEN LET c == checkout_branch(x, base_branch)
               IN IF ~c.ok
                  THEN Ret("fail", "Failed to checkout base branch", c.x, tasks)
                  ELSE \* line 216: git merge --no-ff through _run_command
                       _run_command(c.x, tasks)
          ELSE apply_changes(x, tasks, FALSE)

\* variant: after a successful deletion the record is left in the list
abort_task_keeping_record(x, tasks, delete_branch_flag, now) ==
    LET t == get_current_task(x.g, tasks)
    IN IF t = 0
       THEN Ret("fail", "Not on a task branch", x, tasks)
       ELSE
       LET a == abort_changes(x)
           c == checkout_branch(a.x, tasks[t].base_branch)
           updated == update_task_status(tasks, tasks[t].name, "Aborted", FALSE, now)
           d == delete_branch(c.x, tasks[t].branch)
       IN IF ~a.ok THEN Ret("fail", a.msg, a.x, tasks)
          ELSE IF ~c.ok THEN Ret("fail", "Failed to switch back", c.x, tasks)
          ELSE IF ~delete_branch_flag
          THEN Ret("ok", "Abandoned all changes", c.x, updated)
          ELSE IF d.ok
          THEN Ret("ok", "Abandoned and deleted task", d.x, updated)
          ELSE Ret("fail", "Failed to delete branch", d.x, updated)

\* variant: the record is removed whether or not the branch was deleted
abort_task_dropping_record(x, tasks, delete_branch_flag, now) ==
    LET t == get_current_task(x.g, tasks)
    IN IF t = 0
       THEN Ret("fail", "Not on a task branch", x, tasks)
       ELSE
       LET a == abort_changes(x)
           c == checkout_branch(a.x, tasks[t].base_branch)
           updated == update_task_status(tasks, tasks[t].name, "Aborted", FALSE, now)
           d == delete_branch(c.x, tasks[t].branch)
           removed == SelectSeq(updated, LAMBDA r : r.branch # tasks[t].branch)
       IN IF ~a.ok THEN Ret("fail", a.msg, a.x, tasks)
          ELSE IF ~c.ok THEN Ret("fail", "Failed to switch back", c.x, tasks)
          ELSE IF ~delete_branch_flag
          THEN Ret("ok", "Abandoned all changes", c.x, removed)
          ELSE IF d.ok
          THEN Ret("ok", "Abandoned and deleted task", d.x, removed)
          ELSE Ret("fail", "Failed to delete branch", d.x, removed)

\* variant: the status is written before the checkout of the base branch is
\* known to have worked
abort_task_marking_first(x, tasks, delete_branch_flag, now) ==
    LET t == get_current_task(x.g, tasks)
    IN IF t = 0
       THEN Ret("fail", "Not on a task branch", x, tasks)
       ELSE
       LET a == abort_changes(x)
           c == checkout_branch(a.x, tasks[t].base_branch)
           updated == update_task_status(tasks, tasks[t].name, "Aborted", FALSE, now)
           d == delete_branch(c.x, tasks[t].branch)
       IN IF ~a.ok THEN Ret("fail", a.msg, a.x, tasks)
          ELSE IF ~c.ok THEN Ret("fail", "Failed to switch back", c.x, updated)
          ELSE IF ~delete_branch_flag
          THEN Ret("ok", "Abandoned all changes", c.x, updated)
          ELSE IF d.ok
          THEN Ret("ok", "Abandoned and deleted task", d.x,
                   SelectSeq(updated, LAMBDA r : r.branch # tasks[t].branch))
          ELSE Ret("fail", "Failed to delete branch", d.x, updated)

abort_task(x, tasks, delete_branch_flag, now) ==
    LET t == get_current_task(x.g, tasks)
    IN IF t = 0
       THEN Ret("fail", "Not on a task branch", x, tasks)
       ELSE
       LET task_name == tasks[t].name
           base_branch == tasks[t].base_branch
           task_branch == tasks[t].branch
           a == abort_changes(x)
           c == checkout_branch(a.x, base_branch)
           updated == update_task_status(tasks, task_name, "Aborted", FALSE, now)
           d == delete_branch(c.x, task_branch)
       IN IF ~a.ok THEN Ret("fail", a.msg, a.x, tasks)
          ELSE IF ~c.ok THEN Ret("fail", "Failed to switch back", c.x, tasks)
          ELSE IF ~delete_branch_flag
          THEN Ret("ok", "Abandoned all changes", c.x, updated)
          ELSE IF d.ok
          THEN Ret("ok", "Abandoned and deleted task", d.x,
                   SelectSeq(updated, LAMBDA r : r.branch # task_branch))
          ELSE Ret("fail", "Failed to delete branch", d.x, updated)

\* The loop runs the records in order; for the first one that is not on the
\* current branch, is old enough and passes the merged filter it evaluates
\* self.git._run_command (line 291), which raises: nothing was deleted before.
PruneReaches(g, tasks, days, merged_only, now) ==
    \E i \in 1..Len(tasks) :
        /\ tasks[i].branch # get_current_branch(g)
        /\ now - tasks[i].last_activity >= days
        /\ ~(merged_only /\ tasks[i].status # "Merged")

\* variant: every record old enough is dropped from the list, the one of the
\* current branch too
prune_tasks_dropping_current(x, tasks, days, merged_only, now) ==
    IF ~is_git_repo(x.g)
    THEN Ret("ok", "0", x, tasks)
    ELSE Ret("ok", "0", x,
             SelectSeq(tasks, LAMBDA r :
                 ~(/\ now - r.last_activity >= days
                   /\ ~(merged_only /\ r.status # "Merged"))))

\* variant: the merged filter is not applied
prune_tasks_ignoring_filter(x, tasks, days, merged_only, now) ==
    IF ~is_git_repo(x.g)
    THEN Ret("ok", "0", x, tasks)
    ELSE Ret("ok", "0", x,
             SelectSeq(tasks, LAMBDA r :
                 ~(/\ r.branch # get_current_branch(x.g)
                   /\ now - r.last_activity >= days)))

prune_tasks(x, tasks, days, merged_only, now) ==
    IF ~is_git_repo(x.g)
    THEN Ret("ok", "0", x, tasks)
    ELSE IF PruneReaches(x.g, tasks, days, merged_only, now)
    THEN _run_command(x, tasks)
    ELSE \* tasks_to_delete is empty: nothing is saved, 0 is returned
         Ret("ok", "0", x, tasks)

----------------------------------------------------------------------------
\* Initial states.  Every operation reads the registry file anew, so the
\* file's content is an input: Init ranges over the registries laid out as
\* create_task lays a record out (Task(...), lines 78-88: Active, commits 0,
\* created = last_activity, branch = prefix + name, ids counting up), each
\* with its branch in the repository and a base branch that existed when
\* the record was added.

RECURSIVE InitRegistries(_, _)
InitRegistries(plain, k) ==
    IF k = 0 THEN {<<>>}
    ELSE LET prev == InitRegistries(plain, k - 1)
         IN prev \cup UNION {
                { Append(r, NewTask(_get_next_id(r), n, b, 0)) :
                    n \in {NameOrder[k]},
                    b \in plain \cup Branches(r) } :
                r \in {p \in prev : Len(p) = k - 1} }

NoArgs ==
    [name |-> "", force |-> FALSE, base |-> NoBranch, commit |-> FALSE,
     squash |-> FALSE, delete_branch |-> FALSE, return_to_task |-> FALSE,
     days |-> 0, merged_only |-> FALSE]

NoOp ==
    [op |-> "none", arg |-> NoArgs, kind |-> "none", msg |-> "", from |-> NoBranch,
     log |-> <<>>, err |-> 0]

EmptyTree == [content |-> {}, commits |-> {}]

Init ==
    /\ clock = 0
    /\ last = NoOp
    /\ \/ /\ git = [isRepo |-> FALSE, branches |-> {}, current |-> NoBranch,
                    tree |-> <<>>, dirty |-> FALSE,
                    nextCommit |-> 1]
          /\ registry = <<>>
       \/ \E plain \in InitPlain :
          \E tasks \in InitRegistries(plain, MaxInitTasks) :
          \E cur \in plain \cup Branches(tasks) :
             /\ registry = tasks
             /\ git = [isRepo |-> TRUE,
                       branches |-> plain \cup Branches(tasks),
                       current |-> cur,
                       tree |-> [b \in plain \cup Branches(tasks) |-> EmptyTree],
                       dirty |-> FALSE,
                       nextCommit |-> 1]

----------------------------------------------------------------------------
\* Actions: one per command of the tool (src/main.py), and the user's own
\* doings between two commands.

\* which of an operation's (at most n) git calls fail
FailSets(n) == {F \in SUBSET (1..n) : Cardinality(F) <= MaxFailures}

\* --branch: none given, or a name (that of a branch or not)
BaseInputs == {NoBranch, Main, Dev}

Done(op, arg, r) ==
    /\ last.op = "none"
    /\ git' = Final(r.x)
    /\ registry' = r.tasks
    /\ last' = [op |-> op, arg |-> arg, kind |-> r.kind, msg |-> r.msg,
                from |-> git.current, log |-> r.x.log, err |-> r.x.err]
    /\ UNCHANGED clock

\* cs start <task_name> [--force] [--branch <base>]
CreateTask ==
    \E name \in TaskNames, force \in BOOLEAN, base \in BaseInputs :
        Done("create_task",
             [NoArgs EXCEPT !.name = name, !.force = force, !.base = base],
             create_task(Start(git, {}), registry, name, force, base))

\* cs commit <message>
CommitChanges ==
    /\ git.nextCommit <= MaxCommits
    /\ \E F \in FailSets(2) :
        LET r == commit_changes(Start(git, F))
        IN Done("commit_changes", NoArgs, Ret(r.kind, r.msg, r.x, registry))

\* cs merge [--commit] [--squash]
MergeChanges ==
    \E commit \in BOOLEAN, squash \in BOOLEAN :
    \E F \in FailSets(IF squash THEN 9 ELSE 1) :
        /\ squash => git.nextCommit <= MaxCommits
        /\ Done("merge_changes",
                [NoArgs EXCEPT !.commit = commit, !.squash = squash],
                merge_changes(Start(git, F), registry, commit, squash, clock))

\* cs apply
ApplyChanges ==
    \E return_to_task \in BOOLEAN, F \in FailSets(1) :
        Done("apply_changes",
             [NoArgs EXCEPT !.return_to_task = return_to_task],
             apply_changes(Start(git, F), registry, return_to_task))

\* cs abort; task_abort(delete_branch) of the tool endpoints
AbortTask ==
    \E delete_branch_flag \in BOOLEAN, F \in FailSets(4) :
        Done("abort_task",
             [NoArgs EXCEPT !.delete_branch = delete_branch_flag],
             abort_task(Start(git, F), registry, delete_branch_flag, clock))

\* cs prune [--days N] [--merged]
PruneTasks ==
    \E days \in DaysInputs, merged_only \in BOOLEAN :
        Done("prune_tasks",
             [NoArgs EXCEPT !.days = days, !.merged_only = merged_only],
             prune_tasks(Start(git, {}), registry, days, merged_only, clock))

\* the user checks a branch out
UserCheckout ==
    /\ last.op = "none"
    /\ git.isRepo
    /\ \E b \in git.branches :
        /\ b # git.current
        /\ git' = [git EXCEPT !.current = b]
    /\ UNCHANGED <<registry, clock, last>>

\* the user detaches HEAD (checks a commit out)
UserDetach ==
    /\ last.op = "none"
    /\ git.isRepo
    /\ git.current # NoBranch
    /\ git' = [git EXCEPT !.current = NoBranch]
    /\ UNCHANGED <<registry, clock, last>>

\* the user edits files or adds untracked ones
UserEdit ==
    /\ last.op = "none"
    /\ git.isRepo
    /\ ~git.dirty
    /\ git' = [git EXCEPT !.dirty = TRUE]
    /\ UNCHANGED <<registry, clock, last>>

\* a day passes
Tick ==
    /\ last.op = "none"
    /\ clock < MaxClock
    /\ clock' = clock + 1
    /\ UNCHANGED <<git, registry, last>>

\* the command prints its result and the process ends (src/main.py: the
\* click.echo at the end of each command); the next command starts afresh
Return ==
    /\ last.op # "none"
    /\ last' = NoOp
    /\ UNCHANGED <<git, registry, clock>>

Next ==
    \/ CreateTask
    \/ CommitChanges
    \/ MergeChanges
    \/ ApplyChanges
    \/ AbortTask
    \/ PruneTasks
    \/ UserCheckout
    \/ UserDetach
    \/ UserEdit
    \/ Tick
    \/ Return

Spec == Init /\ [][Next]_vars

----------------------------------------------------------------------------
\* Properties

\* the task branches of the repository
TaskBranchesOf(g) == {b \in g.branches : HasTaskPrefix(b)}

Ids(tasks) == {tasks[i].id : i \in 1..Len(tasks)}

\* the record of the task the running command started on (0 if none)
StartedOn(tasks) ==
    IF \E i \in 1..Len(tasks) : tasks[i].branch = last.from
    THEN CHOOSE i \in 1..Len(tasks) : tasks[i].branch = last.from
    ELSE 0

\* C1: after every lifecycle operation, successful or failed at any git
\* call, the branches named by the registry are exactly the repository's
\* branches that carry the task prefix.
C1_RegistryMatchesRepository ==
    git.isRepo => Branches(registry) = TaskBranchesOf(git)

\* an abort with delete_branch whose branch deletion failed
C1_Witness ==
    /\ last.op = "abort_task"
    /\ last.arg.delete_branch
    /\ last.msg = "Failed to delete branch"
    /\ Len(registry) = 2

\* C2: no two records of the registry name the same branch.
C2_BranchesDistinct ==
    \A i, j \in 1..Len(registry) :
        registry[i].branch = registry[j].branch => i = j

\* two records, after a squash merge of one of them
C2_Witness ==
    /\ last.op = "merge_changes"
    /\ last.kind = "ok"
    /\ Len(registry) = 2

\* C3: a record's status only ever goes from Active to Merged or Aborted;
\* a Merged or Aborted record keeps its status through every command and
\* every checkout by the user.
C3_StatusMonotone ==
    [][\A i \in 1..Len(registry), j \in 1..Len(registry') :
          (registry[i].id = registry'[j].id /\ registry[i].status # "Active")
              => registry'[j].status = registry[i].status]_vars

ResolvedBase(g, base_arg) == IF base_arg = NoBranch THEN get_current_branch(g) ELSE base_arg

\* C5: create_task(name, force, base) in a repository, with a clean tree or
\* force, a base branch B that exists and no branch <prefix>name yet, ends
\* with the branch <prefix>name existing and checked out and exactly one
\* record appended (base_branch B, Active, commits 0, created =
\* last_activity, id 1 or max + 1), the other records unchanged.
C5_CreateTaskPostState ==
    [][(/\ last.op = "none"
        /\ last'.op = "create_task"
        /\ git.isRepo
        /\ last'.arg.force \/ ~git.dirty
        /\ ResolvedBase(git, last'.arg.base) \in git.branches
        /\ TaskBranch(last'.arg.name) \notin git.branches)
       => /\ last'.kind = "ok"
          /\ TaskBranch(last'.arg.name) \in git'.branches
          /\ git'.current = TaskBranch(last'.arg.name)
          /\ registry' = Append(registry,
                                NewTask(_get_next_id(registry), last'.arg.name,
                                        ResolvedBase(git, last'.arg.base), clock))]_vars

\* C6: create_task without force on a tree with uncommitted changes fails
\* and changes nothing: no branch, no checkout, no record.
C6_CreateRefusedOnChanges ==
    [][(/\ last.op = "none"
        /\ last'.op = "create_task"
        /\ ~last'.arg.force
        /\ git.isRepo
        /\ git.dirty)
       => /\ last'.kind = "fail"
          /\ last'.log = <<>>
          /\ git' = git
          /\ registry' = registry]_vars

\* create_task without force was refused for uncommitted changes
C6_Witness ==
    /\ last.op = "create_task"
    /\ ~last.arg.force
    /\ git.dirty
    /\ last.kind = "fail"
    /\ last.msg = "You have uncommitted changes"

\* C7: a create_task that does not succeed for another reason (no
\* repository, no current branch, base branch missing, checkout or branch
\* creation failing) leaves the registry as it was and creates no branch.
C7_FailedCreateLeavesNoTrace ==
    [][(/\ last.op = "none"
        /\ last'.op = "create_task"
        /\ last'.kind # "ok"
        /\ last'.msg # "You have uncommitted changes")
       => /\ registry' = registry
          /\ git'.branches = git.branches]_vars

\* create_task with a base branch that does not exist did not succeed
C7_Witness ==
    /\ last.op = "create_task"
    /\ last.kind # "ok"
    /\ last.arg.base # NoBranch
    /\ last.arg.base \notin git.branches
    /\ git.isRepo

\* the running command is merge_changes(squash = true)
SquashRan == last.op = "merge_changes" /\ last.arg.squash

\* squash_commits got as far as its commit (the 4th git call) and that failed
CommitStepFailed ==
    /\ SquashRan
    /\ last.kind = "fail"
    /\ Len(last.log) >= 4
    /\ last.log[4][1] = "commit"
    /\ ~last.log[4][3]

\* C8: after a successful merge_changes(squash = true) the temporary branch
\* is gone, the task's status is Merged and the current branch is the
\* task's base_branch.
C8_SquashSuccessPostState ==
    (SquashRan /\ last.kind = "ok")
        => LET t == StartedOn(registry)
           IN /\ t # 0
              /\ TempBranch(clock) \notin git.branches
              /\ registry[t].status = "Merged"
              /\ git.current = registry[t].base_branch

\* C9: when merge_changes(squash = true) fails at the commit step, the
\* current branch afterwards is the task branch it started on and no
\* temporary branch remains.
C9_CommitFailureRestores ==
    CommitStepFailed
        => /\ git.current = last.from
           /\ TempBranch(clock) \notin git.branches

\* C9 as the code has it: the clean-up is two more git calls (checkout of
\* the task branch, deletion of the temporary branch) whose failure is
\* passed over.  If both succeed, the task branch is current and the
\* temporary branch is gone; if the checkout fails, the deletion is not
\* tried and the temporary branch stays, checked out; if only the deletion
\* fails, the task branch is current and the temporary branch stays.
C9_CommitFailureBestEffort ==
    CommitStepFailed
        => /\ Len(last.log) \in {5, 6}
           /\ last.log[5] = <<"checkout", last.from, last.log[5][3]>>
           /\ ~last.log[5][3]
                => /\ Len(last.log) = 5
                   /\ git.current = TempBranch(clock)
                   /\ TempBranch(clock) \in git.branches
           /\ last.log[5][3]
                => /\ Len(last.log) = 6
                   /\ last.log[6] = <<"branch-D", TempBranch(clock), last.log[6][3]>>
                   /\ git.current = last.from
                   /\ last.log[6][3] <=> TempBranch(clock) \notin git.branches

\* the commit step failed and both clean-up calls succeeded
C9_Witness ==
    /\ CommitStepFailed
    /\ Len(last.log) = 6
    /\ last.log[5][3]
    /\ last.log[6][3]
    /\ git.current = last.from

\* C10: a successful squash merge integrates into the task's base_branch,
\* whatever branch that is: it checks base_branch out first and leaves the
\* squashed commit (the latest commit) on base_branch and on no other
\* branch.
C10_SquashIntoBaseBranch ==
    (SquashRan /\ last.kind = "ok")
        => LET t == StartedOn(registry)
               k == git.nextCommit - 1
           IN /\ t # 0
              /\ last.log[1] = <<"checkout", registry[t].base_branch, TRUE>>
              /\ registry[t].base_branch \in git.branches
              /\ k \in git.tree[registry[t].base_branch].commits
              /\ \A b \in git.branches \ {registry[t].base_branch} :
                    k \notin git.tree[b].commits

\* the running command is merge_changes(commit = true) without squash
MergeCommitRan == last.op = "merge_changes" /\ last.arg.commit /\ ~last.arg.squash

\* the running command applies without committing: apply_changes, or
\* merge_changes with neither squash nor commit
ApplyRan ==
    \/ last.op = "apply_changes"
    \/ last.op = "merge_changes" /\ ~last.arg.commit /\ ~last.arg.squash

\* every git call the running command issued succeeded
AllCallsOk == \A i \in 1..Len(last.log) : last.log[i][3]

\* C11: merge_changes(commit = true) on a task branch, with no git command
\* failing, ends with the current branch equal to base_branch, a new merge
\* commit on base_branch and the task's status Merged.
C11_MergeCommitPostState ==
    (MergeCommitRan /\ StartedOn(registry) # 0 /\ AllCallsOk)
        => LET t == StartedOn(registry)
               base == registry[t].base_branch
           IN /\ last.kind = "ok"
              /\ git.current = base
              /\ (git.nextCommit - 1) \in git.tree[base].commits
              /\ registry[t].status = "Merged"

\* C12: when merge_changes(commit = true) does not succeed after the base
\* branch was checked out, the current branch on return is the task branch
\* the operation started from.
C12_MergeFailureReturnsToTask ==
    (/\ MergeCommitRan
     /\ last.kind # "ok"
     /\ Len(last.log) >= 1
     /\ last.log[1][1] = "checkout"
     /\ last.log[1][3])
        => git.current = last.from

\* C13: whenever merge_changes does not succeed, under any of the three
\* strategies and whichever git call failed, the registry is what it was
\* before the call (so the task's status is unchanged).
C13_FailedMergeKeepsRegistry ==
    [][(/\ last.op = "none"
        /\ last'.op = "merge_changes"
        /\ last'.kind # "ok")
       => registry' = registry]_vars

\* a squash merge that failed at its last git call, the deletion of the
\* temporary branch, after the merge into the main branch
C13_Witness ==
    /\ SquashRan
    /\ last.kind = "fail"
    /\ Len(last.log) >= 7
    /\ last.log[7][1] = "branch-D"
    /\ ~last.log[7][3]
    /\ StartedOn(registry) # 0
    /\ registry[StartedOn(registry)].status = "Active"

\* C14: apply_changes, and merge_changes with neither squash nor commit,
\* leave the registry unchanged in every outcome.
C14_ApplyKeepsRegistry ==
    [][(/\ last.op = "none"
        /\ \/ last'.op = "apply_changes"
           \/ last'.op = "merge_changes" /\ ~last'.arg.commit /\ ~last'.arg.squash)
       => registry' = registry]_vars

\* an apply on an Active task that got past the checkout of the base branch
C14_Witness ==
    /\ ApplyRan
    /\ Len(last.log) = 1
    /\ last.log[1][3]
    /\ StartedOn(registry) # 0
    /\ registry[StartedOn(registry)].status = "Active"

\* C15: when the no-commit merge of apply_changes does not go through,
\* after the base branch was checked out, the previously checked-out branch
\* is restored: the current branch on return is the task branch.
C15_ApplyFailureRestoresBranch ==
    (/\ ApplyRan
     /\ last.kind # "ok"
     /\ Len(last.log) >= 1
     /\ last.log[1][1] = "checkout"
     /\ last.log[1][3])
        => git.current = last.from

\* the repository after the user has created and checked out branch b by
\* hand (git checkout -b <b>), the registry knowing nothing of it
WithStrayBranch(g, b) ==
    [g EXCEPT !.current = b,
              !.branches = @ \cup {b},
              !.tree = [c \in g.branches \cup {b} |->
                           IF c \in g.branches THEN g.tree[c] ELSE EmptyTree]]

\* the outcome r of a run from repository g is a refusal that did nothing
RefusedNotOnTask(r, g) ==
    /\ r.kind = "fail"
    /\ r.msg = "Not on a task branch"
    /\ r.x.log = <<>>
    /\ Final(r.x) = g
    /\ r.tasks = registry

\* C16: merge_changes (all three strategies), apply_changes and abort_task,
\* called while the current branch does not carry the task prefix or has
\* no record, fail with "Not on a task branch" without issuing a git
\* command: current branch, branches, working tree and registry unchanged.
\* The second conjunct is the case of a task-prefixed branch without a
\* record (a branch the user made by hand).
C16_NotOnTaskBranchRefused ==
    /\ [][(/\ last.op = "none"
           /\ last'.op \in {"merge_changes", "apply_changes", "abort_task"}
           /\ \/ ~HasTaskPrefix(git.current)
              \/ git.current \notin Branches(registry))
          => /\ last'.kind = "fail"
             /\ last'.msg = "Not on a task branch"
             /\ last'.log = <<>>
             /\ git' = git
             /\ registry' = registry]_vars
    /\ [](\A n \in TaskNames :
            (git.isRepo /\ TaskBranch(n) \notin Branches(registry))
                => LET g == WithStrayBranch(git, TaskBranch(n))
                   IN /\ \A commit, squash \in BOOLEAN :
                            RefusedNotOnTask(
                                merge_changes(Start(g, {}), registry, commit, squash, clock), g)
                      /\ \A flag \in BOOLEAN :
                            /\ RefusedNotOnTask(apply_changes(Start(g, {}), registry, flag), g)
                            /\ RefusedNotOnTask(
                                   abort_task(Start(g, {}), registry, flag, clock), g))

\* abort_task was refused on a plain branch while the registry has records
C16_Witness ==
    /\ last.op = "abort_task"
    /\ last.msg = "Not on a task branch"
    /\ git.current # NoBranch
    /\ ~HasTaskPrefix(git.current)
    /\ registry # <<>>

\* C17: a successful abort_task(delete_branch = false) on a task branch,
\* whatever the state of the working tree before, ends with the working
\* tree reset and cleaned, the current branch equal to the task's
\* base_branch, the record still in the registry (the others untouched)
\* with status Aborted, and the task branch still existing.
C17_AbortKeepsBranchAndRecord ==
    [][(/\ last.op = "none"
        /\ last'.op = "abort_task"
        /\ ~last'.arg.delete_branch
        /\ last'.kind = "ok")
       => /\ git.current \in Branches(registry)
          /\ \E t \in 1..Len(registry) :
                /\ registry[t].branch = git.current
                /\ git'.current = registry[t].base_branch
                /\ Len(registry') = Len(registry)
                /\ registry'[t].status = "Aborted"
                /\ registry'[t].id = registry[t].id
                /\ registry'[t].branch = registry[t].branch
                /\ \A i \in 1..Len(registry) : i # t => registry'[i] = registry[i]
          /\ ~git'.dirty
          /\ git.current \in git'.branches
          /\ git'.branches = git.branches]_vars

\* an abort without deletion succeeded; the task branch is still there and
\* the tree is clean
C17_Witness ==
    /\ last.op = "abort_task"
    /\ ~last.arg.delete_branch
    /\ last.kind = "ok"
    /\ last.from \in git.branches
    /\ Len(last.log) = 3

\* C18: a successful abort_task(delete_branch = true) on a task branch ends
\* with the task branch gone, the task's record removed from the registry
\* and all other records kept as they were, and the current branch equal to
\* the task's base_branch.
C18_AbortDeleteRemovesBoth ==
    [][(/\ last.op = "none"
        /\ last'.op = "abort_task"
        /\ last'.arg.delete_branch
        /\ last'.kind = "ok")
       => /\ git.current \notin git'.branches
          /\ git'.branches = git.branches \ {git.current}
          /\ \E t \in 1..Len(registry) :
                /\ registry[t].branch = git.current
                /\ git'.current = registry[t].base_branch
                /\ Len(registry') = Len(registry) - 1
                /\ \A i \in 1..(t - 1) : registry'[i] = registry[i]
                /\ \A i \in t..Len(registry') : registry'[i] = registry[i + 1]]_vars

\* an abort with deletion succeeded on one of two tasks; the other task's
\* record is the one left
C18_Witness ==
    /\ last.op = "abort_task"
    /\ last.arg.delete_branch
    /\ last.kind = "ok"
    /\ last.from \notin git.branches
    /\ Len(registry) = 1

\* C19: when abort_task(delete_branch = true) gets to the deletion of the
\* branch and the deletion fails, the call returns failure, the record is
\* still in the registry with status Aborted, and the task branch exists.
C19_FailedDeletionKeepsAborted ==
    (/\ last.op = "abort_task"
     /\ last.arg.delete_branch
     /\ Len(last.log) = 4
     /\ last.log[4][1] = "branch-D"
     /\ ~last.log[4][3])
        => /\ last.kind = "fail"
           /\ last.from \in git.branches
           /\ \E t \in 1..Len(registry) :
                 /\ registry[t].branch = last.from
                 /\ registry[t].status = "Aborted"

\* the deletion failed on a task whose record now reads Aborted
C19_Witness ==
    /\ last.op = "abort_task"
    /\ last.arg.delete_branch
    /\ last.kind = "fail"
    /\ Len(last.log) = 4
    /\ ~last.log[4][3]
    /\ last.from \in git.branches
    /\ git.current # last.from

\* C20: a record disappears from the registry only in an
\* abort_task(delete_branch = true) or a prune_tasks call in which that
\* record's branch was deleted; no other operation, no failure path and no
\* doing of the user removes a record.
C20_RecordsRemovedOnlyWithBranch ==
    [][\A i \in 1..Len(registry) :
          registry[i].branch \notin Branches(registry')
              => /\ \/ last'.op = "abort_task" /\ last'.arg.delete_branch
                    \/ last'.op = "prune_tasks"
                 /\ last.op = "none"
                 /\ registry[i].branch \in git.branches
                 /\ registry[i].branch \notin git'.branches
                 /\ \E k \in 1..Len(last'.log) :
                       last'.log[k] = <<"branch-D", registry[i].branch, TRUE>>]_vars

\* a record has just been removed together with its branch, another stays
C20_Witness ==
    /\ last.op = "abort_task"
    /\ last.arg.delete_branch
    /\ Len(last.log) = 4
    /\ last.log[4][1] = "branch-D"
    /\ last.log[4][3]
    /\ last.from \notin Branches(registry)
    /\ registry # <<>>

\* the age in days of record r at the time of the running command
Age(r) == clock - r.last_activity

\* C21: prune_tasks, for every threshold and both values of merged_only,
\* never deletes the branch that is checked out and never removes its
\* record, whatever the record's age or status.
C21_PruneSparesCurrentBranch ==
    [][(last.op = "none" /\ last'.op = "prune_tasks")
       => /\ git.current \in git.branches => git.current \in git'.branches
          /\ \A i \in 1..Len(registry) :
                registry[i].branch = git.current
                    => \E j \in 1..Len(registry') : registry'[j] = registry[i]]_vars

\* prune ran on a task branch whose record is old enough and passes the filter
C21_Witness ==
    /\ last.op = "prune_tasks"
    /\ \E i \in 1..Len(registry) :
          /\ registry[i].branch = git.current
          /\ Age(registry[i]) >= last.arg.days
          /\ last.arg.merged_only => registry[i].status = "Merged"

\* C22: prune_tasks(merged_only = true) deletes branches and removes
\* records only of tasks whose status is Merged: records that are Active or
\* Aborted, and their branches, survive it even when they are old enough.
C22_MergedOnlySparesOthers ==
    [][(last.op = "none" /\ last'.op = "prune_tasks" /\ last'.arg.merged_only)
       => \A i \in 1..Len(registry) :
             registry[i].status # "Merged"
                 => /\ \E j \in 1..Len(registry') : registry'[j] = registry[i]
                    /\ registry[i].branch \in git.branches
                           => registry[i].branch \in git'.branches]_vars

\* prune with the merged filter ran and passed over a record that is old
\* enough, not Merged, and not on the current branch
C22_Witness ==
    /\ last.op = "prune_tasks"
    /\ last.arg.merged_only
    /\ last.kind = "ok"
    /\ \E i \in 1..Len(registry) :
          /\ registry[i].status # "Merged"
          /\ registry[i].branch # git.current
          /\ registry[i].branch \in git.branches
          /\ Age(registry[i]) >= last.arg.days

\* record r is one prune_tasks(days, merged_only) is to remove from
\* repository g: not on the current branch, old enough, passing the filter,
\* its branch existing
Prunable(r, g, days, merged_only) ==
    /\ r.branch # g.current
    /\ Age(r) >= days
    /\ merged_only => r.status = "Merged"
    /\ r.branch \in g.branches

\* C23: prune_tasks, no branch deletion failing, removes from the registry
\* exactly the records that are not on the current branch, are at least
\* `days` days old, pass the merged filter and whose branch exists, deletes
\* exactly their branches, and returns the number of records removed.
C23_PruneRemovesExactlyEligible ==
    [][(last.op = "none" /\ last'.op = "prune_tasks" /\ git.isRepo)
       => LET Gone(r) == Prunable(r, git, last'.arg.days, last'.arg.merged_only)
          IN /\ last'.kind = "ok"
             /\ registry' = SelectSeq(registry, LAMBDA r : ~Gone(r))
             /\ git'.branches =
                   git.branches \ {registry[i].branch : i \in {k \in 1..Len(registry) : Gone(registry[k])}}
             /\ last'.msg = ToString(Len(registry) - Len(registry'))]_vars

\* C24: every lifecycle operation is total: create_task, merge_changes,
\* apply_changes and abort_task return a (success, message) pair and
\* prune_tasks returns a count, in every state and for every outcome of
\* the git calls; none ends with an exception.
C24_OperationsTotal ==
    last.op \in {"create_task", "merge_changes", "apply_changes", "abort_task", "prune_tasks"}
        => last.kind \in {"ok", "fail"}

\* C25: in a repository, commit_changes succeeds only when the current
\* branch carries the task prefix and the working tree has changes; it
\* fails with "No changes to commit" on a clean tree and with "Not on a
\* task branch" when the prefix is absent, making no commit in either case;
\* in every outcome the registry is unchanged.
C25_CommitChangesContract ==
    [][(last.op = "none" /\ last'.op = "commit_changes" /\ git.isRepo)
       => /\ registry' = registry
          /\ last'.kind = "ok" => HasTaskPrefix(git.current) /\ git.dirty
          /\ ~git.dirty
                => /\ last'.kind = "fail"
                   /\ last'.msg = "No changes to commit"
                   /\ git'.nextCommit = git.nextCommit
          /\ (git.dirty /\ ~HasTaskPrefix(git.current))
                => /\ last'.kind = "fail"
                   /\ last'.msg = "Not on a task branch"
                   /\ git'.nextCommit = git.nextCommit]_vars

\* the number of the first git call of log that failed (0: none did)
FirstFailure(log) ==
    IF \E i \in 1..Len(log) : ~log[i][3]
    THEN CHOOSE i \in 1..Len(log) : ~log[i][3] /\ \A j \in 1..(i - 1) : log[j][3]
    ELSE 0

\* C26: when the squash procedure fails at its first call (checkout of the
\* branch to merge into) or its second (creation of the temporary branch),
\* it stops there with no clean-up: no further git call is issued and the
\* set of branches is what it was before, a branch that already carried
\* the temporary name included.
C26_EarlySquashFailureNoCleanup ==
    [][(/\ last.op = "none"
        /\ last'.op = "merge_changes"
        /\ last'.arg.squash
        /\ FirstFailure(last'.log) \in {1, 2})
       => /\ Len(last'.log) = FirstFailure(last'.log)
          /\ git'.branches = git.branches]_vars

\* C27: when a call of the squash procedure fails and a call of the
\* clean-up (checkout of the task branch, deletion of the temporary branch)
\* fails too, the clean-up's failure is passed over: merge_changes returns
\* failure with the error of the first failed call.
C27_CleanupFailureSwallowed ==
    (/\ SquashRan
     /\ FirstFailure(last.log) \in 1..7
     /\ \E j \in (FirstFailure(last.log) + 1)..Len(last.log) : ~last.log[j][3])
        => /\ last.kind = "fail"
           /\ last.msg = "GitCommandError"
           /\ last.err = FirstFailure(last.log)

\* the commit of the squash failed, and then the checkout back failed
C27_Witness ==
    /\ SquashRan
    /\ Len(last.log) = 5
    /\ ~last.log[4][3]
    /\ ~last.log[5][3]
    /\ last.log[5][1] = "checkout"
    /\ last.kind = "fail"

\* C28: create_task(name, force, base) with an existing base branch B that is
\* not the branch checked out at the call, no branch <prefix>name yet and
\* every git call succeeding, checks B out, then creates <prefix>name, which
\* forks from the tip of B, and only then appends the record.
C28_TaskBranchForksFromBase ==
    [][(/\ last.op = "none"
        /\ last'.op = "create_task"
        /\ git.isRepo
        /\ last'.arg.force \/ ~git.dirty
        /\ last'.arg.base \in git.branches
        /\ last'.arg.base # git.current
        /\ TaskBranch(last'.arg.name) \notin git.branches
        /\ \A i \in 1..Len(last'.log) : last'.log[i][3])
       => /\ Len(last'.log) = 2
          /\ last'.log[1] = <<"checkout", last'.arg.base, TRUE>>
          /\ last'.log[2] = <<"checkout-b", TaskBranch(last'.arg.name), TRUE>>
          /\ TaskBranch(last'.arg.name) \in git'.branches
          /\ git'.tree[TaskBranch(last'.arg.name)] = git.tree[last'.arg.base]
          /\ Len(registry') = Len(registry) + 1
          /\ registry'[Len(registry')].base_branch = last'.arg.base]_vars

\* C29: when the hard reset, the clean or the checkout of the base branch
\* fails in abort_task, the operation returns failure, the registry is as it
\* was (the task keeps its status) and the task branch still exists.
C29_AbortFailureKeepsRegistry ==
    [][(/\ last.op = "none"
        /\ last'.op = "abort_task"
        /\ FirstFailure(last'.log) \in 1..3)
       => /\ last'.kind = "fail"
          /\ registry' = registry
          /\ git.current \in git'.branches
          /\ git'.branches = git.branches]_vars

\* abort_task reset and cleaned the tree, and the checkout of the base
\* branch failed
C29_Witness ==
    /\ last.op = "abort_task"
    /\ Len(last.log) = 3
    /\ last.log[1][3]
    /\ last.log[2][3]
    /\ last.log[3][1] = "checkout"
    /\ ~last.log[3][3]
    /\ last.kind = "fail"

\* C30: apply_changes, or merge_changes with neither squash nor commit, on
\* the branch of a task and with every git call succeeding, succeeds;
\* apply_changes(return_to_task = true) ends on the task branch it was
\* started from, the others end on the task's base_branch.
C30_ApplyEndsOnChosenBranch ==
    [][(/\ last.op = "none"
        /\ \/ last'.op = "apply_changes"
           \/ last'.op = "merge_changes" /\ ~last'.arg.squash /\ ~last'.arg.commit
        /\ get_current_task(git, registry) # 0
        /\ \A i \in 1..Len(last'.log) : last'.log[i][3])
       => /\ last'.kind = "ok"
          /\ git'.current =
                IF last'.op = "apply_changes" /\ last'.arg.return_to_task
                THEN git.current
                ELSE registry[get_current_task(git, registry)].base_branch]_vars

\* C31: in every step, a record that stays in the registry (same id) keeps
\* its id, name, branch, base_branch and created; a successful merge_changes
\* or abort_task leaves every record other than the one of the task on the
\* current branch as it was, and changes of that one, if it is kept, only
\* status and last_activity.
C31_RecordFieldsImmutable ==
    [][/\ \A i \in 1..Len(registry) : \A j \in 1..Len(registry') :
            registry'[j].id = registry[i].id
                => /\ registry'[j].name = registry[i].name
                   /\ registry'[j].branch = registry[i].branch
                   /\ registry'[j].base_branch = registry[i].base_branch
                   /\ registry'[j].created = registry[i].created
       /\ (/\ last.op = "none"
           /\ last'.op \in {"merge_changes", "abort_task"}
           /\ last'.kind = "ok")
          => LET t == get_current_task(git, registry)
             IN /\ t # 0
                /\ SelectSeq(registry', LAMBDA r : r.id # registry[t].id)
                      = SelectSeq(registry, LAMBDA r : r.id # registry[t].id)
                /\ \A j \in 1..Len(registry') :
                      registry'[j].id = registry[t].id
                          => [registry'[j] EXCEPT
                                 !.status = registry[t].status,
                                 !.last_activity = registry[t].last_activity]
                             = registry[t]]_vars

\* a squash merge succeeded on one of two tasks a day after they were made:
\* the record of the merged task has a new status and last_activity
C31_Witness ==
    /\ SquashRan
    /\ last.kind = "ok"
    /\ Len(registry) = 2
    /\ StartedOn(registry) # 0
    /\ registry[StartedOn(registry)].status = "Merged"
    /\ registry[StartedOn(registry)].last_activity = 1
    /\ registry[StartedOn(registry)].created = 0

\* C32: when merge_changes under the squash or the commit strategy returns
\* failure, the task's base branch and the repository's main branch hold
\* the commits they held before the call.
C32_FailedMergeIntegratesNothing ==
    [][(/\ last.op = "none"
        /\ last'.op = "merge_changes"
        /\ last'.arg.squash \/ last'.arg.commit
        /\ last'.kind = "fail"
        /\ get_current_task(git, registry) # 0)
       => \A b \in {registry[get_current_task(git, registry)].base_branch,
                    get_main_branch(git)} \cap git.branches :
             /\ b \in git'.branches
             /\ git'.tree[b].commits = git.tree[b].commits]_vars

\* C33: the base_branch of every record with status Active names a branch
\* of the repository.
C33_ActiveBaseBranchExists ==
    \A i \in 1..Len(registry) :
        registry[i].status = "Active" => registry[i].base_branch \in git.branches

\* C34: a create_task call that does not succeed leaves the checked-out
\* branch as it was, whatever the base branch asked for.
C34_FailedCreateKeepsBranch ==
    [][(/\ last.op = "none"
        /\ last'.op = "create_task"
        /\ last'.kind # "ok")
       => git'.current = git.current]_vars

\* create_task did not succeed with an explicit base branch that exists and
\* is not the branch checked out
C34_Witness ==
    /\ last.op = "create_task"
    /\ last.kind # "ok"
    /\ last.arg.base # NoBranch
    /\ last.arg.base \in git.branches
    /\ last.from # NoBranch
    /\ last.arg.base # last.from
    /\ TaskBranch(last.arg.name) \notin git.branches

\* C35: the commits counter of every record is 0.
C35_CommitsCounterZero ==
    \A i \in 1..Len(registry) : registry[i].commits = 0

\* a commit was made on the branch of a task, whose record still counts 0
C35_Witness ==
    /\ last.op = "commit_changes"
    /\ last.kind = "ok"
    /\ StartedOn(registry) # 0
    /\ git.tree[last.from].commits # {}
    /\ registry[StartedOn(registry)].commits = 0

\* C36: every lifecycle operation ends by returning a result, after a bounded
\* number of git calls: at most 9 for merge_changes (seven steps of the
\* squash and two of its clean-up), 4 for abort_task, 2 for create_task and
\* for apply_changes, and two per registry record for prune_tasks.
C36_OperationsReturnAfterBoundedCalls ==
    [][(/\ last.op = "none"
        /\ last'.op \in {"create_task", "merge_changes", "apply_changes",
                          "abort_task", "prune_tasks"})
       => /\ last'.kind \in {"ok", "fail"}
          /\ Len(last'.log) <=
                CASE last'.op = "merge_changes" -> 9
                  [] last'.op = "abort_task" -> 4
                  [] last'.op = "prune_tasks" -> 2 * Len(registry)
                  [] OTHER -> 2]_vars

====
